---- MODULE Spec2Model ----
(***************************************************************************)
(* GeoQuarry: a quadtree whose nodes are records of a key-value store.     *)
(* The model follows src/src/DiskQuadTree.js (init, insert, range,         *)
(* nearest) and src/unnamed/part_000 (the same class with update).         *)
(*                                                                         *)
(* Numbers. The code computes with float64. Every coordinate of the model  *)
(* is the integer n standing for the real n / Scale, Scale a power of two: *)
(* callers pass whole numbers, and the only arithmetic that leaves the     *)
(* whole numbers is the halving of a boundary in _subdivide, which is      *)
(* exact in float64 and exact here as long as the halved number is even    *)
(* (HalvingExact checks that it always is).                                *)
(***************************************************************************)
EXTENDS Integers, Sequences, FiniteSets, TLC

\* ------------------------------------------------------------------ bounds
\* Most accepted inserts in one behaviour.
MaxInserts == 4
\* Largest capacity a tree is opened with.
MaxCapacity == 2

\* Most calls in flight at once (SpecConc).
NProcs == 2

\* Fixed-point scale: a tree of MaxInserts points is at most MaxInserts deep.
Scale == 2 ^ (MaxInserts + 1)
Fx(n) == n * Scale

\* --------------------------------------------------------------- constants
\* nearest(x, y, radius = 100)
DefaultRadius == 100
\* cli.js opens the tree on new Rectangle(0, 0, 100, 100)
RootHalfExtent == 100
RootBoundary == [x |-> Fx(0), y |-> Fx(0), w |-> Fx(RootHalfExtent), h |-> Fx(RootHalfExtent)]

\* Mutant: the children are tried from the last to the first.
Dirs_reversed == <<"sw", "se", "nw", "ne">>

Dirs == <<"ne", "nw", "se", "sw">>
NoRoot == 0
NoTree == [rootId |-> NoRoot, capacity |-> 0]
Null == [null |-> TRUE]
\* The data of new Point(x, y): the third argument is left out.
Undefined == "undefined"

\* ------------------------------------------------------------------ inputs
Capacities == 1 .. MaxCapacity
\* Payloads insert is called with, and payloads update is called with.
Payloads == {"a"}
NewPayloads == {"b"}
\* Coordinates callers pass (real units): the centre of the universe, a
\* point on the edge shared by the se and sw quadrants, a corner of the
\* universe, and a point just outside it.
Coords == { <<0, 0>>, <<0, 50>>, <<100, -100>>, <<101, 0>> }
\* Corner rectangles <<minX, minY, maxX, maxY>> callers pass to range.
Rects == { <<-100, -100, 100, 100>>, <<-100, 0, 0, 100>>, <<1, -100, 100, -1>>, <<0, 0, 25, 25>> }
\* Centres callers pass to nearest.
Probes == { <<0, -100>>, <<0, 150>>, <<0, 151>> }

Procs == 1 .. NProcs
\* A call slot with no call in flight.
Idle == [pc |-> "idle"]

VARIABLES
  db,        \* the store: [meta: root id or NoRoot, nodes: id -> node record]
  tree,      \* the DiskQuadTree handle the caller holds, or NoTree
  ret,       \* the last call and what it returned or threw
  inserted,  \* history: the points of the insert calls that lie in the universe
  updated,   \* history: some update has written to the store
  splits,    \* history: one [id, points] per call of _subdivide, in order
  procs,     \* the calls in flight, one store round trip per step (SpecCrash, SpecConc)
  calls      \* history: the number of inserts begun round trip by round trip

vars == <<db, tree, ret, inserted, updated, splits, procs, calls>>

\* ---------------------------------------------------------------- Geometry
Abs(n) == IF n < 0 THEN -n ELSE n

Point(x, y, data) == [x |-> x, y |-> y, data |-> data]

Rectangle(x, y, w, h) == [x |-> x, y |-> y, w |-> w, h |-> h]

\* Rectangle.contains: closed on every edge.
contains(r, p) == Abs(p.x - r.x) <= r.w /\ Abs(p.y - r.y) <= r.h

\* Rectangle.intersects: closed-interval overlap on both axes.
intersects(r, o) ==
  ~ ( o.x - o.w > r.x + r.w \/ o.x + o.w < r.x - r.w
      \/ o.y - o.h > r.y + r.h \/ o.y + o.h < r.y - r.h )

\* ------------------------------------------------------------------- store
\* db.put(`node:${id}`, value)
Put(nodes, id, value) ==
  [k \in (DOMAIN nodes) \union {id} |-> IF k = id THEN value ELSE nodes[k]]

\* uuidv4(): an id no record of the store has.
NewId(nodes) == Cardinality(DOMAIN nodes) + 1

EmptyNodes == [k \in {} |-> Null]

\* ------------------------------------------------------------------ insert
\* Mutant: the child centre is offset by the whole half-extent (the / 2 of
\* the offset is lost).
Child_fullOffset(node, id, dir) ==
  LET dx == IF dir \in {"ne", "se"} THEN 1 ELSE -1
      dy == IF dir \in {"se", "sw"} THEN 1 ELSE -1
      b == node.boundary
  IN [ id |-> id,
       boundary |-> [ x |-> b.x + dx * b.w,
                      y |-> b.y + dy * b.h,
                      w |-> b.w \div 2,
                      h |-> b.h \div 2 ],
       points |-> << >>,
       divided |-> FALSE ]

\* One quadrant's child record as _subdivide builds it.
Child(node, id, dir) ==
  LET dx == IF dir \in {"ne", "se"} THEN 1 ELSE -1
      dy == IF dir \in {"se", "sw"} THEN 1 ELSE -1
      b == node.boundary
  IN [ id |-> id,
       boundary |-> [ x |-> b.x + (dx * b.w) \div 2,
                      y |-> b.y + (dy * b.h) \div 2,
                      w |-> b.w \div 2,
                      h |-> b.h \div 2 ],
       points |-> << >>,
       divided |-> FALSE ]

\* Mutant: the parent's list is emptied when it is subdivided.
Divided_clearsPoints(node, children) ==
  [ id |-> node.id, boundary |-> node.boundary, points |-> << >>,
    divided |-> TRUE, children |-> children ]

\* Mutant: the parent is rewritten with a child's half-extent.
Divided_halvesBoundary(node, children) ==
  [ id |-> node.id,
    boundary |-> [node.boundary EXCEPT !.w = @ \div 2, !.h = @ \div 2],
    points |-> node.points, divided |-> TRUE, children |-> children ]

\* The node record after node.divided = true; node.children = children.
Divided(node, children) ==
  [ id |-> node.id, boundary |-> node.boundary, points |-> node.points,
    divided |-> TRUE, children |-> children ]

\* _subdivide(node): four child puts, then the parent put.
_subdivide(nodes, node) ==
  LET n1 == Put(nodes, NewId(nodes), Child(node, NewId(nodes), "ne"))
      n2 == Put(n1, NewId(n1), Child(node, NewId(n1), "nw"))
      n3 == Put(n2, NewId(n2), Child(node, NewId(n2), "se"))
      n4 == Put(n3, NewId(n3), Child(node, NewId(n3), "sw"))
      children == [ne |-> NewId(nodes), nw |-> NewId(n1), se |-> NewId(n2), sw |-> NewId(n3)]
  IN Put(n4, node.id, Divided(node, children))

RECURSIVE _insert(_, _, _, _)
RECURSIVE _insertChildren(_, _, _, _, _, _, _)

\* The loop of _insert over ['ne','nw','se','sw'], from index i; visited
\* and split are the logs of the calls made so far.
_insertChildren(capacity, nodes, children, point, i, visited, split) ==
  IF i > Len(Dirs) THEN [ok |-> FALSE, nodes |-> nodes, visited |-> visited, split |-> split]
  ELSE LET r == _insert(capacity, nodes, children[Dirs[i]], point)
       IN IF r.ok THEN [r EXCEPT !.visited = visited \o @, !.split = split \o @]
          ELSE _insertChildren(capacity, r.nodes, children, point, i + 1,
                               visited \o r.visited, split \o r.split)

\* Mutant: a leaf takes one point more than capacity (<= for <).
_insert_offByOne(capacity, nodes, nodeId, point) ==
  LET node == nodes[nodeId]
  IN IF ~contains(node.boundary, point)
       THEN [ok |-> FALSE, nodes |-> nodes, visited |-> <<nodeId>>, split |-> << >>]
     ELSE IF Len(node.points) <= capacity /\ ~node.divided
       THEN [ ok |-> TRUE,
              nodes |-> Put(nodes, nodeId, [node EXCEPT !.points = Append(@, point)]),
              visited |-> <<nodeId>>, split |-> << >> ]
     ELSE LET s1 == IF ~node.divided THEN _subdivide(nodes, node) ELSE nodes
              sp == IF ~node.divided THEN <<[id |-> node.id, points |-> node.points]>> ELSE << >>
          IN _insertChildren(capacity, s1, s1[node.id].children, point, 1, <<nodeId>>, sp)

\* Mutant: the guard of the _subdivide call is lost, so a node is
\* subdivided on every descent through it.
_insert_alwaysSubdivide(capacity, nodes, nodeId, point) ==
  LET node == nodes[nodeId]
  IN IF ~contains(node.boundary, point)
       THEN [ok |-> FALSE, nodes |-> nodes, visited |-> <<nodeId>>, split |-> << >>]
     ELSE IF Len(node.points) < capacity /\ ~node.divided
       THEN [ ok |-> TRUE,
              nodes |-> Put(nodes, nodeId, [node EXCEPT !.points = Append(@, point)]),
              visited |-> <<nodeId>>, split |-> << >> ]
     ELSE LET s1 == _subdivide(nodes, node)
              sp == <<[id |-> node.id, points |-> node.points]>>
          IN _insertChildren(capacity, s1, s1[node.id].children, point, 1, <<nodeId>>, sp)

\* _insert(nodeId, point): ok is its return value, nodes the store after
\* its puts, visited the node ids it was called on, split one
\* [id, points] per node it subdivided.
_insert(capacity, nodes, nodeId, point) ==
  LET node == nodes[nodeId]
  IN IF ~contains(node.boundary, point)
       THEN [ok |-> FALSE, nodes |-> nodes, visited |-> <<nodeId>>, split |-> << >>]
     ELSE IF Len(node.points) < capacity /\ ~node.divided
       THEN [ ok |-> TRUE,
              nodes |-> Put(nodes, nodeId, [node EXCEPT !.points = Append(@, point)]),
              visited |-> <<nodeId>>, split |-> << >> ]
     ELSE LET s1 == IF ~node.divided THEN _subdivide(nodes, node) ELSE nodes
              sp == IF ~node.divided THEN <<[id |-> node.id, points |-> node.points]>> ELSE << >>
          IN _insertChildren(capacity, s1, s1[node.id].children, point, 1, <<nodeId>>, sp)

\* ------------------------------------------------------------------- query
\* range(minX, minY, maxX, maxY) builds the centre/half-extent rectangle.
\* The corners are whole numbers, so the halves are exact at this Scale.
RangeRect(minX, minY, maxX, maxY) ==
  Rectangle((minX + maxX) \div 2, (minY + maxY) \div 2,
            (maxX - minX) \div 2, (maxY - minY) \div 2)

RECURSIVE SelectIn(_, _)
\* The points of a node's list that range.contains accepts, in stored order.
SelectIn(points, range) ==
  IF points = << >> THEN << >>
  ELSE LET p == Head(points)
           pt == Point(p.x, p.y, p.data)
       IN (IF contains(range, pt) THEN <<pt>> ELSE << >>) \o SelectIn(Tail(points), range)

RECURSIVE _query(_, _, _, _)
RECURSIVE _queryChildren(_, _, _, _, _)

_queryChildren(nodes, children, range, found, i) ==
  IF i > Len(Dirs) THEN found
  ELSE _queryChildren(nodes, children, range,
                      _query(nodes, children[Dirs[i]], range, found), i + 1)

\* Mutant: only a leaf's points are collected (a divided node's own list is
\* skipped, as in a quadtree that redistributes).
_query_leafOnly(nodes, nodeId, range, found) ==
  LET node == nodes[nodeId]
  IN IF ~intersects(node.boundary, range) THEN found
     ELSE IF node.divided THEN _queryChildren(nodes, node.children, range, found, 1)
     ELSE found \o SelectIn(node.points, range)

\* Mutant: a divided node's own matches come after its children's.
_query_childrenFirst(nodes, nodeId, range, found) ==
  LET node == nodes[nodeId]
  IN IF ~intersects(node.boundary, range) THEN found
     ELSE IF node.divided
       THEN _queryChildren(nodes, node.children, range, found, 1) \o SelectIn(node.points, range)
     ELSE found \o SelectIn(node.points, range)

\* _query(nodeId, range, found)
_query(nodes, nodeId, range, found) ==
  LET node == nodes[nodeId]
  IN IF ~intersects(node.boundary, range) THEN found
     ELSE LET f1 == found \o SelectIn(node.points, range)
          IN IF node.divided THEN _queryChildren(nodes, node.children, range, f1, 1)
             ELSE f1

range(t, nodes, minX, minY, maxX, maxY) ==
  _query(nodes, t.rootId, RangeRect(minX, minY, maxX, maxY), << >>)

\* ----------------------------------------------------------------- nearest
SqDist(p, x, y) == (p.x - x) * (p.x - x) + (p.y - y) * (p.y - y)

RECURSIVE InsertSorted_unstable(_, _, _, _)
\* Mutant: p is placed before the elements it compares equal to.
InsertSorted_unstable(sorted, p, x, y) ==
  IF sorted = << >> THEN <<p>>
  ELSE IF SqDist(Head(sorted), x, y) - SqDist(p, x, y) >= 0 THEN <<p>> \o sorted
  ELSE <<Head(sorted)>> \o InsertSorted_unstable(Tail(sorted), p, x, y)

RECURSIVE InsertSorted(_, _, _, _)
\* p placed after every element that does not compare greater than it.
InsertSorted(sorted, p, x, y) ==
  IF sorted = << >> THEN <<p>>
  ELSE IF SqDist(Head(sorted), x, y) - SqDist(p, x, y) > 0 THEN <<p>> \o sorted
  ELSE <<Head(sorted)>> \o InsertSorted(Tail(sorted), p, x, y)

RECURSIVE SortByDistance(_, _, _, _)
\* candidates.sort((a, b) => da - db): a stable sort; acc is the sorted prefix.
SortByDistance(candidates, acc, x, y) ==
  IF candidates = << >> THEN acc
  ELSE SortByDistance(Tail(candidates), InsertSorted(acc, Head(candidates), x, y), x, y)

\* Mutant: an empty candidate list widens the search to twice the radius.
nearest_widens(t, nodes, x, y, radius) ==
  LET c1 == range(t, nodes, x - radius, y - radius, x + radius, y + radius)
      c2 == range(t, nodes, x - 2 * radius, y - 2 * radius, x + 2 * radius, y + 2 * radius)
      sorted == SortByDistance(IF c1 = << >> THEN c2 ELSE c1, << >>, x, y)
  IN IF sorted = << >> THEN Null ELSE sorted[1]

\* nearest(x, y, radius): candidates[0] || null
nearest(t, nodes, x, y, radius) ==
  LET candidates == range(t, nodes, x - radius, y - radius, x + radius, y + radius)
      sorted == SortByDistance(candidates, << >>, x, y)
  IN IF sorted = << >> THEN Null ELSE sorted[1]

\* ------------------------------------------------------------------ update
NotFound == [found |-> FALSE]

\* The first index of points whose point has coordinates (x, y), or 0.
FindIndex(points, x, y) ==
  IF \E i \in 1 .. Len(points) : points[i].x = x /\ points[i].y = y
    THEN CHOOSE i \in 1 .. Len(points) :
           /\ points[i].x = x /\ points[i].y = y
           /\ \A j \in 1 .. (i - 1) : ~(points[j].x = x /\ points[j].y = y)
    ELSE 0

RECURSIVE _findPoint(_, _, _, _)
RECURSIVE _findPointChildren(_, _, _, _, _)

_findPointChildren(nodes, children, x, y, i) ==
  IF i > Len(Dirs) THEN NotFound
  ELSE LET r == _findPoint(nodes, children[Dirs[i]], x, y)
       IN IF r.found THEN r ELSE _findPointChildren(nodes, children, x, y, i + 1)

\* Mutant: the match compares x only (p.x === x).
_findPoint_xOnly(nodes, nodeId, x, y) ==
  LET node == nodes[nodeId]
      hit == {i \in 1 .. Len(node.points) : node.points[i].x = x}
  IN IF ~contains(node.boundary, Point(x, y, Undefined)) THEN NotFound
     ELSE IF hit # {} THEN [found |-> TRUE, point |-> node.points[CHOOSE i \in hit : \A j \in hit : i <= j]]
     ELSE IF node.divided THEN _findPointChildren(nodes, node.children, x, y, 1)
     ELSE NotFound

\* _findPoint(nodeId, x, y): the point, or null (NotFound).
_findPoint(nodes, nodeId, x, y) ==
  LET node == nodes[nodeId]
      i == FindIndex(node.points, x, y)
  IN IF ~contains(node.boundary, Point(x, y, Undefined)) THEN NotFound
     ELSE IF i # 0 THEN [found |-> TRUE, point |-> node.points[i]]
     ELSE IF node.divided THEN _findPointChildren(nodes, node.children, x, y, 1)
     ELSE NotFound

\* _findNodeIdRecursive(node, x, y), called by _findNodeId on the root
\* record. Its recursive call passes node.children[dir], an id and not a
\* record: the callee reads .boundary.x of it, which throws a TypeError on
\* the first child, so a divided node without a match never yields an id.
_findNodeIdRecursive(node, x, y) ==
  IF ~contains(node.boundary, Point(x, y, Undefined)) THEN [tag |-> "null"]
  ELSE IF FindIndex(node.points, x, y) # 0 THEN [tag |-> "id", id |-> node.id]
  ELSE IF node.divided THEN [tag |-> "TypeError"]
  ELSE [tag |-> "null"]

_findNodeId(t, nodes, x, y) == _findNodeIdRecursive(nodes[t.rootId], x, y)

\* _updateNode(x, y, newJsonData): the store after it, or the error thrown.
_updateNode(t, nodes, x, y, newJsonData) ==
  LET f == _findNodeId(t, nodes, x, y)
  IN IF f.tag = "TypeError" THEN [status |-> "TypeError", nodes |-> nodes]
     ELSE IF f.tag = "null" THEN [status |-> "NotFound", nodes |-> nodes]
     ELSE LET node == nodes[f.id]
              pointIndex == FindIndex(node.points, x, y)
          IN IF pointIndex # 0
               THEN [ status |-> "ok",
                      nodes |-> Put(nodes, f.id,
                                    [node EXCEPT !.points[pointIndex].data = newJsonData]) ]
               ELSE [status |-> "ok", nodes |-> nodes]

\* update(x, y, newJsonData): returns true ("ok") or throws.
update(t, nodes, x, y, newJsonData) ==
  LET found == _findPoint(nodes, t.rootId, x, y)
  IN IF ~found.found THEN [status |-> "PointNotFound", nodes |-> nodes]
     ELSE _updateNode(t, nodes, found.point.x, found.point.y, newJsonData)

\* ----------------------------------------------------------------- actions
\* The closed square the root boundary describes, by its corners.
InUniverse(p) ==
  /\ Fx(-RootHalfExtent) <= p.x /\ p.x <= Fx(RootHalfExtent)
  /\ Fx(-RootHalfExtent) <= p.y /\ p.y <= Fx(RootHalfExtent)

Init ==
  /\ db = [meta |-> NoRoot, nodes |-> EmptyNodes]
  /\ tree = NoTree
  /\ ret = [op |-> "none"]
  /\ inserted = << >>
  /\ updated = FALSE
  /\ splits = << >>
  /\ procs = [p \in Procs |-> Idle]
  /\ calls = 0

\* Mutant: init never reads meta:root and always writes a new root.
init_alwaysCreate(capacity) ==
  /\ tree = NoTree \/ tree.capacity = capacity
  /\ LET rootId == NewId(db.nodes)
     IN /\ db' = [ meta |-> rootId,
                   nodes |-> Put(db.nodes, rootId,
                                 [ id |-> rootId, boundary |-> RootBoundary,
                                   points |-> << >>, divided |-> FALSE ]) ]
        /\ tree' = [rootId |-> rootId, capacity |-> capacity]
  /\ ret' = [op |-> "init", val |-> tree'.rootId]
  /\ UNCHANGED <<inserted, updated, splits, procs, calls>>

\* DiskQuadTree.init(path, boundary, capacity): a store is opened with one
\* capacity throughout (cli.js passes a literal).
init(capacity) ==
  /\ tree = NoTree \/ tree.capacity = capacity
  /\ IF db.meta # NoRoot
       THEN /\ tree' = [rootId |-> db.meta, capacity |-> capacity]
            /\ db' = db
       ELSE LET rootId == NewId(db.nodes)
            IN /\ db' = [ meta |-> rootId,
                          nodes |-> Put(db.nodes, rootId,
                                        [ id |-> rootId, boundary |-> RootBoundary,
                                          points |-> << >>, divided |-> FALSE ]) ]
               /\ tree' = [rootId |-> rootId, capacity |-> capacity]
  /\ ret' = [op |-> "init", val |-> tree'.rootId]
  /\ UNCHANGED <<inserted, updated, splits, procs, calls>>

\* insert(x, y, data): the result of _insert is dropped; the call resolves.
insert(x, y, data) ==
  /\ tree # NoTree
  /\ Len(inserted) < MaxInserts
  /\ LET point == Point(x, y, data)
         r == _insert(tree.capacity, db.nodes, tree.rootId, point)
     IN /\ db' = [db EXCEPT !.nodes = r.nodes]
        /\ ret' = [ op |-> "insert", point |-> point, status |-> "ok",
                    accepted |-> r.ok, visited |-> r.visited, split |-> r.split ]
        /\ inserted' = IF InUniverse(point) THEN Append(inserted, point) ELSE inserted
        /\ splits' = splits \o r.split
  /\ UNCHANGED <<tree, updated, procs, calls>>

\* Mutant: range writes the root back with the points it did not match
\* removed.
Range_prunes(q) ==
  /\ tree # NoTree
  /\ ret' = [ op |-> "range", rect |-> q,
              val |-> range(tree, db.nodes, Fx(q[1]), Fx(q[2]), Fx(q[3]), Fx(q[4])) ]
  /\ db' = [db EXCEPT !.nodes[tree.rootId].points =
                        SelectIn(@, RangeRect(Fx(q[1]), Fx(q[2]), Fx(q[3]), Fx(q[4])))]
  /\ UNCHANGED <<tree, inserted, updated, splits, procs, calls>>

\* range(minX, minY, maxX, maxY)
Range(q) ==
  /\ tree # NoTree
  /\ ret' = [ op |-> "range", rect |-> q,
              val |-> range(tree, db.nodes, Fx(q[1]), Fx(q[2]), Fx(q[3]), Fx(q[4])) ]
  /\ UNCHANGED <<db, tree, inserted, updated, splits, procs, calls>>

\* nearest(x, y) with the default radius
Nearest(c) ==
  /\ tree # NoTree
  /\ ret' = [ op |-> "nearest", at |-> c,
              val |-> nearest(tree, db.nodes, Fx(c[1]), Fx(c[2]), Fx(DefaultRadius)) ]
  /\ UNCHANGED <<db, tree, inserted, updated, splits, procs, calls>>

Update(x, y, data) ==
  /\ tree # NoTree
  /\ LET r == update(tree, db.nodes, x, y, data)
     IN /\ db' = [db EXCEPT !.nodes = r.nodes]
        /\ ret' = [op |-> "update", x |-> x, y |-> y, data |-> data, status |-> r.status]
        /\ updated' = (updated \/ r.nodes # db.nodes)
  /\ UNCHANGED <<tree, inserted, splits, procs, calls>>

Next ==
  \/ \E c \in Capacities : init(c)
  \/ \E c \in Coords, d \in Payloads : insert(Fx(c[1]), Fx(c[2]), d)
  \/ \E q \in Rects : Range(q)
  \/ \E c \in Probes : Nearest(c)
  \/ \E c \in Coords, d \in NewPayloads : Update(Fx(c[1]), Fx(c[2]), d)

Spec == Init /\ [][Next]_vars

\* ------------------------------------------------- one round trip per step
\* The same init and insert, one store round trip (db.get or db.put, with
\* the synchronous code that follows it) per step. A call in flight is
\* procs[p]; pc names its next round trip.

\* Coordinates of the inserts begun round trip by round trip: under a
\* single writer, and of the inserts that race.
StepCoords == { <<0, 0>>, <<0, 50>>, <<101, 0>> }
RaceCoords == { <<0, 0>>, <<0, 50>> }

\* The root record init writes.
RootNode(rootId) ==
  [id |-> rootId, boundary |-> RootBoundary, points |-> << >>, divided |-> FALSE]

\* children = {} and children[dir] = id
NoChildren == [d \in {} |-> NoRoot]
AddChild(children, dir, id) ==
  [d \in (DOMAIN children) \union {dir} |-> IF d = dir THEN id ELSE children[d]]

\* uuidv4() in _subdivide: an id no other record has, named after the call
\* (the call-th insert begun), the subdivisions it has made before (n) and
\* the child's place in ne, nw, se, sw (k), so that it does not depend on
\* how the calls interleave. init's root id is NewId of the empty store.
StepId(call, n, k) == 100 * call + 10 * n + k

\* Mutant: the parent is put after two of its children.
SubdivideOrder_parentEarly == <<"ne", "nw", "parent", "se", "sw">>

\* Mutant: the parent is put before its children.
SubdivideOrder_parentFirst == <<"parent", "ne", "nw", "se", "sw">>

\* The puts of _subdivide in the order the code awaits them: one child per
\* direction, then the parent.
SubdivideOrder == <<"ne", "nw", "se", "sw", "parent">>

\* The round trip after `for (const dir of ...)` enters a divided node:
\* _insert(children['ne'], point) begins with its db.get.
Descend(children, stack) ==
  [ pc |-> "get", nodeId |-> children[Dirs[1]],
    stack |-> Append(stack, [children |-> children, i |-> 1]) ]

RECURSIVE Unwind(_)
\* A call of _insert returned false; stack holds the loops of its callers.
\* The caller tries its next child, or returns false itself when it has
\* tried all four; "return" is the top-level _insert returning false.
Unwind(stack) ==
  IF stack = << >> THEN [pc |-> "return", nodeId |-> NoRoot, stack |-> << >>]
  ELSE LET top == stack[Len(stack)]
           rest == SubSeq(stack, 1, Len(stack) - 1)
       IN IF top.i < Len(Dirs)
            THEN [ pc |-> "get", nodeId |-> top.children[Dirs[top.i + 1]],
                   stack |-> Append(rest, [top EXCEPT !.i = @ + 1]) ]
            ELSE Unwind(rest)

RECURSIVE ReachPoints(_, _)
\* The points of the records reachable from record id over children maps
\* (a missing record has none), a node's own points before its children's.
ReachPoints(nodes, id) ==
  IF id \notin DOMAIN nodes THEN << >>
  ELSE LET n == nodes[id]
           sub(d) == IF n.divided /\ d \in DOMAIN n.children
                       THEN ReachPoints(nodes, n.children[d]) ELSE << >>
       IN n.points \o sub("ne") \o sub("nw") \o sub("se") \o sub("sw")

\* insert resolves (status "ok") or rejects; the call leaves its slot.
\* accepted is the boolean _insert returned, which insert drops.
Finish(p, status, accepted) ==
  /\ procs' = [procs EXCEPT ![p] = Idle]
  /\ ret' = [ op |-> "insert", point |-> procs[p].point, status |-> status,
              accepted |-> accepted, proc |-> p, base |-> procs[p].base ]
  /\ inserted' = IF accepted THEN Append(inserted, procs[p].point) ELSE inserted

\* DiskQuadTree.init(path, boundary, capacity) begins.
InitStart(p, capacity) ==
  /\ procs[p] = Idle
  /\ tree = NoTree
  /\ procs' = [procs EXCEPT ![p] = [pc |-> "initGet", capacity |-> capacity, rootId |-> NoRoot]]
  /\ UNCHANGED <<db, tree, ret, inserted, updated, splits, calls>>

\* rootId = await db.get('meta:root'); on a miss, rootId = uuidv4().
InitGetStep(p) ==
  /\ procs[p].pc = "initGet"
  /\ IF db.meta # NoRoot
       THEN /\ tree' = [rootId |-> db.meta, capacity |-> procs[p].capacity]
            /\ procs' = [procs EXCEPT ![p] = Idle]
            /\ ret' = [op |-> "init", val |-> db.meta]
       ELSE /\ procs' = [procs EXCEPT ![p].pc = "initPutMeta", ![p].rootId = NewId(db.nodes)]
            /\ UNCHANGED <<tree, ret>>
  /\ UNCHANGED <<db, inserted, updated, splits, calls>>

\* await db.put('meta:root', rootId)
InitPutMetaStep(p) ==
  /\ procs[p].pc = "initPutMeta"
  /\ db' = [db EXCEPT !.meta = procs[p].rootId]
  /\ procs' = [procs EXCEPT ![p].pc = "initPutNode"]
  /\ UNCHANGED <<tree, ret, inserted, updated, splits, calls>>

\* await db.put(`node:${rootId}`, {...}); return new DiskQuadTree(...)
InitPutNodeStep(p) ==
  /\ procs[p].pc = "initPutNode"
  /\ db' = [db EXCEPT !.nodes = Put(@, procs[p].rootId, RootNode(procs[p].rootId))]
  /\ tree' = [rootId |-> procs[p].rootId, capacity |-> procs[p].capacity]
  /\ procs' = [procs EXCEPT ![p] = Idle]
  /\ ret' = [op |-> "init", val |-> procs[p].rootId]
  /\ UNCHANGED <<inserted, updated, splits, calls>>

\* insert(x, y, data) begins: _insert(this.rootId, point) is about to read.
\* The call takes the first free slot. base is history: the points reachable
\* from the root when the call began, kept when no other call is in flight;
\* limit bounds the inserts begun in one behaviour.
InsertStart(p, x, y, limit) ==
  /\ procs[p] = Idle
  /\ \A q \in 1 .. (p - 1) : procs[q] # Idle
  /\ tree # NoTree
  /\ calls < limit
  /\ calls' = calls + 1
  /\ procs' = [procs EXCEPT ![p] =
                 [ pc |-> "get", point |-> Point(x, y, ToString(calls + 1)),
                   nodeId |-> tree.rootId, stack |-> << >>,
                   node |-> Null, children |-> NoChildren, j |-> 0,
                   call |-> calls + 1, nsub |-> 0,
                   base |-> IF \A q \in Procs : procs[q] = Idle
                              THEN ReachPoints(db.nodes, tree.rootId) ELSE << >> ]]
  /\ UNCHANGED <<db, tree, ret, inserted, updated, splits>>

\* const node = await this.db.get(`node:${nodeId}`), and the code up to the
\* next await.
GetStep(p) ==
  /\ procs[p].pc = "get"
  /\ LET me == procs[p]
     IN IF me.nodeId \notin DOMAIN db.nodes
          THEN Finish(p, "NotFound", FALSE)
        ELSE LET node == db.nodes[me.nodeId]
             IN IF ~contains(node.boundary, me.point)
                  THEN LET u == Unwind(me.stack)
                       IN IF u.pc = "return" THEN Finish(p, "ok", FALSE)
                          ELSE /\ procs' = [procs EXCEPT ![p].pc = u.pc, ![p].nodeId = u.nodeId,
                                                         ![p].stack = u.stack]
                               /\ UNCHANGED <<ret, inserted>>
                ELSE IF Len(node.points) < tree.capacity /\ ~node.divided
                  THEN /\ procs' = [procs EXCEPT ![p].pc = "putLeaf",
                                       ![p].node = [node EXCEPT !.points = Append(@, me.point)]]
                       /\ UNCHANGED <<ret, inserted>>
                ELSE IF ~node.divided
                  THEN /\ procs' = [procs EXCEPT ![p].pc = "subdivide", ![p].node = node,
                                       ![p].children = NoChildren, ![p].j = 1]
                       /\ UNCHANGED <<ret, inserted>>
                ELSE LET d == Descend(node.children, me.stack)
                     IN /\ procs' = [procs EXCEPT ![p].pc = d.pc, ![p].nodeId = d.nodeId,
                                                  ![p].stack = d.stack]
                        /\ UNCHANGED <<ret, inserted>>
  /\ UNCHANGED <<db, tree, updated, splits, calls>>

\* Mutant: _insert returns true without the put.
PutLeafStep_dropsWrite(p) ==
  /\ procs[p].pc = "putLeaf"
  /\ Finish(p, "ok", TRUE)
  /\ UNCHANGED <<db, tree, updated, splits, calls>>

\* await this.db.put(`node:${nodeId}`, node); return true
PutLeafStep(p) ==
  /\ procs[p].pc = "putLeaf"
  /\ db' = [db EXCEPT !.nodes = Put(@, procs[p].nodeId, procs[p].node)]
  /\ Finish(p, "ok", TRUE)
  /\ UNCHANGED <<tree, updated, splits, calls>>

\* One put of _subdivide; after the last, _insert goes on into the children.
SubdivideStep(p) ==
  /\ procs[p].pc = "subdivide"
  /\ LET me == procs[p]
         kind == SubdivideOrder[me.j]
         id == StepId(me.call, me.nsub, me.j)
         children == IF kind = "parent" THEN me.children ELSE AddChild(me.children, kind, id)
     IN /\ db' = [db EXCEPT !.nodes =
                    IF kind = "parent" THEN Put(@, me.node.id, Divided(me.node, me.children))
                    ELSE Put(@, id, Child(me.node, id, kind))]
        /\ splits' = IF kind = "parent"
                       THEN Append(splits, [id |-> me.node.id, points |-> me.node.points])
                       ELSE splits
        /\ IF me.j < Len(SubdivideOrder)
             THEN procs' = [procs EXCEPT ![p].j = @ + 1, ![p].children = children]
             ELSE LET d == Descend(children, me.stack)
                  IN procs' = [procs EXCEPT ![p].pc = d.pc, ![p].nodeId = d.nodeId,
                                            ![p].stack = d.stack, ![p].children = children,
                                            ![p].nsub = @ + 1]
  /\ UNCHANGED <<tree, ret, inserted, updated, calls>>

\* The process stops between two round trips: the calls in flight and the
\* handle are gone, the store is as the completed puts left it.
Crash ==
  /\ tree # NoTree \/ \E p \in Procs : procs[p] # Idle
  /\ procs' = [p \in Procs |-> Idle]
  /\ tree' = NoTree
  /\ ret' = [op |-> "crash"]
  /\ UNCHANGED <<db, inserted, updated, splits, calls>>

\* A single writer: one call at a time, which may stop at any round trip.
CrashNext ==
  \/ \E c \in Capacities : InitStart(1, c)
  \/ InitGetStep(1)
  \/ InitPutMetaStep(1)
  \/ InitPutNodeStep(1)
  \/ \E c \in StepCoords : InsertStart(1, Fx(c[1]), Fx(c[2]), MaxInserts)
  \/ GetStep(1)
  \/ PutLeafStep(1)
  \/ SubdivideStep(1)
  \/ Crash

SpecCrash == Init /\ [][CrashNext]_vars

\* The points of k earlier inserts at the centre, one after the other.
Earlier(k) == [i \in 1 .. k |-> Point(Fx(0), Fx(0), "0")]

\* The state after init on an empty store for a tree of some capacity,
\* and after inserts, one at a time, that left the root empty or full.
ConcInit ==
  \E c \in Capacities : \E k \in {0, c} :
    /\ tree = [rootId |-> NewId(EmptyNodes), capacity |-> c]
    /\ db = [ meta |-> NewId(EmptyNodes),
              nodes |-> Put(EmptyNodes, NewId(EmptyNodes),
                            [RootNode(NewId(EmptyNodes)) EXCEPT !.points = Earlier(k)]) ]
    /\ ret = [op |-> "init", val |-> NewId(EmptyNodes)]
    /\ inserted = Earlier(k)
    /\ updated = FALSE
    /\ splits = << >>
    /\ procs = [p \in Procs |-> Idle]
    /\ calls = 0

\* Inserts on one handle with no mutual exclusion: their round trips
\* interleave in any order.
ConcNext ==
  \/ \E p \in Procs, c \in RaceCoords : InsertStart(p, Fx(c[1]), Fx(c[2]), NProcs)
  \/ \E p \in Procs : GetStep(p)
  \/ \E p \in Procs : PutLeafStep(p)
  \/ \E p \in Procs : SubdivideStep(p)

SpecConc == ConcInit /\ [][ConcNext]_vars

\* ================================================================== claims
\* Helpers for stating the claims.
CountIn(seq, p) == Cardinality({i \in 1 .. Len(seq) : seq[i] = p})
Elems(seq) == {seq[i] : i \in 1 .. Len(seq)}
\* p satisfies minX <= x <= maxX and minY <= y <= maxY for the corner
\* rectangle q (in real units).
InRect(p, q) ==
  /\ Fx(q[1]) <= p.x /\ p.x <= Fx(q[3])
  /\ Fx(q[2]) <= p.y /\ p.y <= Fx(q[4])
Root == db.nodes[tree.rootId]

\* C1: after a sequence of inserts (no update in between), range returns
\* exactly the multiset of the inserted in-universe points that lie in the
\* closed query rectangle: each such point as often as it was inserted,
\* nothing else.
C1_RangeExact ==
  (ret.op = "range" /\ ~updated) =>
    \A p \in Elems(ret.val) \union Elems(inserted) :
      CountIn(ret.val, p) = IF InRect(p, ret.rect) THEN CountIn(inserted, p) ELSE 0

\* C1 witness: a range over a divided tree that returns a point twice,
\* returns points stored below the root, and leaves an inserted point out.
C1_Witness ==
  /\ ret.op = "range" /\ ~updated
  /\ Root.divided
  /\ Len(ret.val) > Len(Root.points)
  /\ Len(ret.val) < Len(inserted)
  /\ \E p \in Elems(ret.val) : CountIn(ret.val, p) >= 2

\* Some stored point has the coordinates (x, y).
HasPoint(nodes, x, y) ==
  \E id \in DOMAIN nodes : \E i \in 1 .. Len(nodes[id].points) :
    nodes[id].points[i].x = x /\ nodes[id].points[i].y = y

RangeOf(t, nodes, q) == range(t, nodes, Fx(q[1]), Fx(q[2]), Fx(q[3]), Fx(q[4]))

\* C2: an init against a store that already holds a root-id record returns
\* the root id the earlier init returned, writes nothing, creates no node,
\* and every range query answers after it as it did before it.
C2_InitIdempotent ==
  [][ (ret'.op = "init" /\ db.meta # NoRoot) =>
        /\ ret'.val = tree.rootId /\ tree'.rootId = db.meta
        /\ db' = db
        /\ \A q \in Rects : RangeOf(tree', db'.nodes, q) = RangeOf(tree, db.nodes, q) ]_vars

\* C2 witness: an init ran on a store whose tree is divided and holds
\* points.
C2_Witness ==
  /\ ret.op = "init"
  /\ Len(inserted) >= 2
  /\ Root.divided

RECURSIVE Locate(_, _, _, _)
\* The place <<node id, index>> of the first point with coordinates (x, y)
\* in depth-first order (a node's own list, then ne, nw, se, sw), or << >>.
Locate(nodes, nodeId, x, y) ==
  LET node == nodes[nodeId]
      i == FindIndex(node.points, x, y)
      sub == [d \in 1 .. 4 |-> IF node.divided THEN Locate(nodes, node.children[Dirs[d]], x, y) ELSE << >>]
      hits == {d \in 1 .. 4 : sub[d] # << >>}
  IN IF i # 0 THEN <<nodeId, i>>
     ELSE IF hits = {} THEN << >>
     ELSE sub[CHOOSE d \in hits : \A e \in hits : d <= e]

\* C3 (as claimed): update on the coordinates of any stored point, in the
\* root or below it, returns success and replaces the payload of exactly
\* the first such point in depth-first order, changing nothing else.
C3_UpdateExisting ==
  [][ (ret'.op = "update" /\ HasPoint(db.nodes, ret'.x, ret'.y)) =>
        LET at == Locate(db.nodes, tree.rootId, ret'.x, ret'.y)
        IN /\ ret'.status = "ok"
           /\ at # << >>
           /\ db' = [db EXCEPT !.nodes[at[1]].points[at[2]].data = ret'.data] ]_vars

\* C4: update on coordinates no stored point has fails with "Point not
\* found" and leaves every record of the store as it was.
C4_UpdateMissing ==
  [][ (ret'.op = "update" /\ ~HasPoint(db.nodes, ret'.x, ret'.y)) =>
        (ret'.status = "PointNotFound" /\ db' = db) ]_vars

\* C4 witness: an update failed with "Point not found" on a divided tree
\* that holds another point with the same x.
C4_Witness ==
  /\ ret.op = "update" /\ ret.status = "PointNotFound"
  /\ Root.divided
  /\ \E p \in Elems(inserted) : p.x = ret.x /\ p.y # ret.y

\* C5 (as claimed): insert of a point outside the root boundary raises an
\* error, writes nothing, and no range query returns the point afterwards.
C5_OutsideRaises ==
  [][ (ret'.op = "insert" /\ ~InUniverse(ret'.point)) =>
        /\ ret'.status = "error"
        /\ db' = db
        /\ \A q \in Rects : ret'.point \notin Elems(RangeOf(tree', db'.nodes, q)) ]_vars

\* The number of points of seq with coordinates (x, y).
CoordCount(seq, x, y) == Cardinality({i \in 1 .. Len(seq) : seq[i].x = x /\ seq[i].y = y})

\* In this step the record id goes from undivided to divided.
BecomesDivided(id) ==
  /\ id \in DOMAIN db'.nodes /\ db'.nodes[id].divided
  /\ (id \in DOMAIN db.nodes => ~db.nodes[id].divided)

\* This step is an insert whose descent called _insert on the record id
\* while it was an undivided leaf holding capacity points whose boundary
\* contains the new point.
ReachedFull(id) ==
  /\ ret'.op = "insert"
  /\ id \in Elems(ret'.visited)
  /\ id \in DOMAIN db.nodes
  /\ ~db.nodes[id].divided
  /\ Len(db.nodes[id].points) = tree.capacity
  /\ contains(db.nodes[id].boundary, ret'.point)

\* No node id occurs twice in the history of subdivisions.
SplitOnce == \A i, j \in 1 .. Len(splits) : splits[i].id = splits[j].id => i = j

\* Every point resident in a node when it was subdivided is returned (as
\* often as it was resident) by each range query whose rectangle contains it.
ResidentsFound ==
  \A i \in 1 .. Len(splits) : \A q \in Rects : \A k \in 1 .. Len(splits[i].points) :
    LET p == splits[i].points[k]
    IN InRect(p, q) =>
         CoordCount(RangeOf(tree, db.nodes, q), p.x, p.y) >= CoordCount(splits[i].points, p.x, p.y)

\* C6: a node is subdivided exactly when an insert reaches it while it is
\* an undivided leaf holding capacity points and containing the new point;
\* no node is subdivided twice; the points resident at that moment are
\* returned by every later range query whose rectangle contains them.
C6_SubdivideOnce ==
  /\ [](SplitOnce /\ ResidentsFound)
  /\ [][ /\ \A id \in DOMAIN db'.nodes : BecomesDivided(id) <=> ReachedFull(id)
         /\ \A id \in DOMAIN db'.nodes :
              BecomesDivided(id) <=>
                (ret'.op = "insert" /\ id \in {ret'.split[i].id : i \in 1 .. Len(ret'.split)}) ]_vars

\* C6 witness: two nodes have been subdivided, and a range query has just
\* returned a point that was resident in the first of them.
C6_Witness ==
  /\ Len(splits) >= 2
  /\ ret.op = "range"
  /\ \E k \in 1 .. Len(splits[1].points) :
       /\ InRect(splits[1].points[k], ret.rect)
       /\ CoordCount(ret.val, splits[1].points[k].x, splits[1].points[k].y) >= 1

\* The probe points of a boundary: its corners, edge midpoints and centre,
\* the quarter points, and the points one unit (1 / Scale) off the centre
\* lines.
Probe1(c, h) == {c - h, c - h \div 2, c - 1, c, c + 1, c + h \div 2, c + h}
ProbePoints(b) == {Point(x, y, Undefined) : x \in Probe1(b.x, b.w), y \in Probe1(b.y, b.h)}

Sx(dir) == IF dir \in {"ne", "se"} THEN 1 ELSE -1
Sy(dir) == IF dir \in {"se", "sw"} THEN 1 ELSE -1
DirSet == {"ne", "nw", "se", "sw"}

\* The halving of a divided node's boundary is exact.
HalvingExact ==
  \A id \in DOMAIN db.nodes :
    db.nodes[id].divided => db.nodes[id].boundary.w % 2 = 0 /\ db.nodes[id].boundary.h % 2 = 0

\* The number of points in all records of the store.
RECURSIVE StoredCount(_, _)
StoredCount(nodes, ids) ==
  IF ids = {} THEN 0
  ELSE LET id == CHOOSE i \in ids : TRUE
       IN Len(nodes[id].points) + StoredCount(nodes, ids \ {id})

\* C7: the children of a divided node have half its half-extents and the
\* centres the quadrant tags give (e -> +x, w -> -x, s -> +y, n -> -y), so
\* every point of the parent's closed boundary lies in the closed boundary
\* of one of its children, and children do not leave the parent; an
\* insert of a point in the universe is accepted and stores the point.
C7_ChildrenCover ==
  /\ HalvingExact
  /\ \A id \in DOMAIN db.nodes :
       LET n == db.nodes[id]
           b == n.boundary
       IN n.divided =>
            /\ \A dir \in DirSet :
                 LET cb == db.nodes[n.children[dir]].boundary
                 IN /\ 2 * cb.w = b.w /\ 2 * cb.h = b.h
                    /\ 2 * (cb.x - b.x) = Sx(dir) * b.w
                    /\ 2 * (cb.y - b.y) = Sy(dir) * b.h
                    /\ \A p \in ProbePoints(cb) : contains(b, p)
            /\ \A p \in ProbePoints(b) \union Elems(inserted) :
                 contains(b, p) => \E dir \in DirSet : contains(db.nodes[n.children[dir]].boundary, p)
  /\ (ret.op = "insert" /\ InUniverse(ret.point)) => ret.accepted
  /\ StoredCount(db.nodes, DOMAIN db.nodes) = Len(inserted)

\* C7 witness: an insert of a point in the universe went down two divided
\* levels and was accepted below them.
C7_Witness ==
  /\ ret.op = "insert" /\ InUniverse(ret.point) /\ ret.accepted
  /\ Len(splits) >= 2
  /\ Len(ret.visited) >= 3

\* All points stored in the records of the store.
StoredPoints == UNION {Elems(db.nodes[id].points) : id \in DOMAIN db.nodes}

\* C8: nearest with the default radius returns none whenever no stored
\* point lies in the closed square of half-side 100 about (x, y).
C8_NearestBounded ==
  (ret.op = "nearest" /\
     ~ \E p \in StoredPoints :
          /\ Fx(ret.at[1] - DefaultRadius) <= p.x /\ p.x <= Fx(ret.at[1] + DefaultRadius)
          /\ Fx(ret.at[2] - DefaultRadius) <= p.y /\ p.y <= Fx(ret.at[2] + DefaultRadius))
    => ret.val = Null

\* C8 witness: nearest returned none although a stored point lies one unit
\* outside the square.
C8_Witness ==
  /\ ret.op = "nearest" /\ ret.val = Null
  /\ \E p \in StoredPoints :
       /\ p.x = Fx(ret.at[1])
       /\ p.y = Fx(ret.at[2] - DefaultRadius - 1)

\* C9: every node record holds at most capacity points; an undivided record
\* has no children field; a divided record has a children map with exactly
\* the tags ne, nw, se, sw.
C9_NodeShape ==
  \A id \in DOMAIN db.nodes :
    LET n == db.nodes[id]
    IN /\ Len(n.points) <= tree.capacity
       /\ ~n.divided => "children" \notin DOMAIN n
       /\ n.divided => ("children" \in DOMAIN n /\ DOMAIN n.children = DirSet)

\* C9 witness: a tree of capacity 2 with a divided node and a leaf, both
\* holding capacity points.
C9_Witness ==
  /\ tree.capacity = 2
  /\ \E id \in DOMAIN db.nodes : db.nodes[id].divided /\ Len(db.nodes[id].points) = 2
  /\ \E id \in DOMAIN db.nodes : ~db.nodes[id].divided /\ Len(db.nodes[id].points) = 2

\* C10: a divided record stays divided with the same children map, and its
\* points list keeps its length and coordinates; no insert changes it at
\* all (only update may replace a payload in it); the step that subdivides
\* a node leaves its points list as it was.
C10_DividedFrozen ==
  [][ \A id \in DOMAIN db.nodes :
        LET n == db.nodes[id]
        IN /\ id \in DOMAIN db'.nodes
           /\ n.divided =>
                LET m == db'.nodes[id]
                IN /\ m.divided
                   /\ m.children = n.children
                   /\ Len(m.points) = Len(n.points)
                   /\ \A i \in 1 .. Len(n.points) :
                        m.points[i].x = n.points[i].x /\ m.points[i].y = n.points[i].y
                   /\ ret'.op # "update" => m.points = n.points
           /\ (~n.divided /\ db'.nodes[id].divided) => db'.nodes[id].points = n.points ]_vars

\* C10 witness: an insert passed through a node that was already divided
\* and holds points, and was stored below it.
C10_Witness ==
  /\ ret.op = "insert" /\ ret.accepted
  /\ ret.split = << >>
  /\ Len(ret.visited) >= 2
  /\ Len(Root.points) >= 1

\* ---------------------------------------------- single writer, round trips
\* The records no divided record names as a child, the root aside.
Orphans ==
  { id \in DOMAIN db.nodes :
      /\ id # db.meta
      /\ \A o \in DOMAIN db.nodes :
           db.nodes[o].divided => \A d \in DOMAIN db.nodes[o].children : db.nodes[o].children[d] # id }

\* Every divided record names four children and each is a stored record.
ChildrenStored(nodes) ==
  \A id \in DOMAIN nodes :
    nodes[id].divided =>
      /\ DOMAIN nodes[id].children = DirSet
      /\ \A d \in DirSet : nodes[id].children[d] \in DOMAIN nodes

\* C11: under a single writer that may stop between any two round trips,
\* every store state has, for each record with divided = true, all four
\* child ids present as records; and the put that makes a record divided
\* finds its four children already stored before it.
C11_ChildrenBeforeParent ==
  /\ [](ChildrenStored(db.nodes))
  /\ [][ \A id \in DOMAIN db'.nodes :
           BecomesDivided(id) =>
             /\ DOMAIN db'.nodes[id].children = DirSet
             /\ \A d \in DirSet : db'.nodes[id].children[d] \in DOMAIN db.nodes ]_vars

\* C11 witness: a record was made divided by an insert after an earlier
\* insert had stopped between its child puts and its parent put.
C11_Witness ==
  /\ \E id \in DOMAIN db.nodes : db.nodes[id].divided
  /\ Orphans # {}
  /\ procs[1] # Idle /\ procs[1].pc = "get"

\* C12 (as claimed): in every store state between the writes of init, a
\* present root-id record names a stored node record.
C12_RootBeforeMeta ==
  db.meta # NoRoot => db.meta \in DOMAIN db.nodes

\* a and b hold the same points, each as often.
SameBag(a, b) ==
  \A p \in Elems(a) \union Elems(b) : CountIn(a, p) = CountIn(b, p)

\* C13: while a single-writer insert is between two of its round trips, the
\* points reachable from the root are, as a multiset, those reachable when
\* it began, or those plus its point; when it has resolved they are those
\* plus its point if _insert returned true and those alone if not.
C13_InsertAtomic ==
  LET reach == ReachPoints(db.nodes, db.meta)
      me == procs[1]
  IN /\ (me # Idle /\ me.pc \in {"get", "putLeaf", "subdivide"}) =>
          \/ SameBag(reach, me.base)
          \/ SameBag(reach, Append(me.base, me.point))
     /\ (me = Idle /\ ret.op = "insert") =>
          SameBag(reach, IF ret.accepted THEN Append(ret.base, ret.point) ELSE ret.base)

\* C13 witness: an insert has put its four children and not yet the parent;
\* the children are unreferenced and the root holds the points it held.
C13_Witness ==
  /\ procs[1] # Idle /\ procs[1].pc = "subdivide"
  /\ procs[1].j = Len(SubdivideOrder)
  /\ procs[1].base # << >>
  /\ Cardinality(Orphans) >= Len(Dirs)
  /\ SameBag(ReachPoints(db.nodes, db.meta), procs[1].base)

\* ------------------------------------------------------- one call per step
RECURSIVE Target(_, _, _)
\* The record a descent from id ends at: at a divided record it enters the
\* first child, in the order ne, nw, se, sw, whose closed boundary contains
\* p; it stops at an undivided record.
Target(nodes, id, p) ==
  LET n == nodes[id]
      holds(d) == contains(nodes[n.children[d]].boundary, p)
  IN IF ~n.divided THEN id
     ELSE IF holds("ne") THEN Target(nodes, n.children.ne, p)
     ELSE IF holds("nw") THEN Target(nodes, n.children.nw, p)
     ELSE IF holds("se") THEN Target(nodes, n.children.se, p)
     ELSE IF holds("sw") THEN Target(nodes, n.children.sw, p)
     ELSE NoRoot

\* The points list of record id before the step (empty for a new record).
PointsBefore(id) == IF id \in DOMAIN db.nodes THEN db.nodes[id].points ELSE << >>

\* C14: an insert for which _insert returns true appends the point to the
\* end of the points list of exactly one record and leaves every other
\* record's list as it was; that record is the one the descent from the
\* root ends at when it enters, at each divided record, the first child in
\* the order ne, nw, se, sw whose closed boundary contains the point, and it
\* was undivided with fewer than capacity points.
C14_AppendAtTarget ==
  [][ (ret'.op = "insert" /\ ret'.accepted) =>
        LET t == Target(db'.nodes, tree.rootId, ret'.point)
        IN /\ t \in DOMAIN db'.nodes
           /\ db'.nodes[t].points = Append(PointsBefore(t), ret'.point)
           /\ Len(PointsBefore(t)) < tree.capacity
           /\ t \in DOMAIN db.nodes => ~db.nodes[t].divided
           /\ \A id \in DOMAIN db'.nodes \ {t} : db'.nodes[id].points = PointsBefore(id) ]_vars

\* C14 witness: a point at the centre of the divided root went to the end
\* of the list of the root's ne child, after a point already there.
C14_Witness ==
  /\ ret.op = "insert" /\ ret.accepted
  /\ ret.point.x = Root.boundary.x /\ ret.point.y = Root.boundary.y
  /\ Root.divided
  /\ LET ne == db.nodes[Root.children.ne]
     IN /\ ~ne.divided /\ Len(ne.points) >= 2
        /\ ne.points[Len(ne.points)] = ret.point

\* The points of seq inside the corner rectangle q, in the order of seq.
Matching(seq, q) ==
  LET Test(p) == InRect(p, q)
  IN SelectSeq(seq, Test)

RECURSIVE PreOrder(_, _)
\* Every point of the tree under record id: the record's own list in
\* stored order, then its children's in the order ne, nw, se, sw.
PreOrder(nodes, id) ==
  LET n == nodes[id]
  IN IF ~n.divided THEN n.points
     ELSE n.points \o PreOrder(nodes, n.children.ne) \o PreOrder(nodes, n.children.nw)
                   \o PreOrder(nodes, n.children.se) \o PreOrder(nodes, n.children.sw)

\* C15: the sequence range returns is the pre-order traversal of the tree
\* (a record's own points in stored order, then its children ne, nw, se,
\* sw) restricted to the points in the rectangle, and the same call on the
\* store the call left returns the same sequence.
C15_RangePreOrder ==
  ret.op = "range" =>
    /\ ret.val = Matching(PreOrder(db.nodes, tree.rootId), ret.rect)
    /\ ret.val = RangeOf(tree, db.nodes, ret.rect)

\* C15 witness: a range over a divided tree returned three or more points,
\* in an order that is not the order they were inserted in.
C15_Witness ==
  /\ ret.op = "range" /\ ~updated
  /\ Root.divided
  /\ Len(ret.val) >= 3
  /\ ret.val # Matching(inserted, ret.rect)

\* The candidates of nearest(x, y) with the default radius at centre c.
Candidates(c) ==
  range(tree, db.nodes, Fx(c[1]) - Fx(DefaultRadius), Fx(c[2]) - Fx(DefaultRadius),
                        Fx(c[1]) + Fx(DefaultRadius), Fx(c[2]) + Fx(DefaultRadius))

\* C16: when the range over the square of half-side radius about (x, y)
\* returns a candidate, nearest returns a candidate no other candidate is
\* closer than (squared Euclidean distance), and of the candidates at that
\* distance the one that comes first in the range's result.
C16_NearestFirstMinimal ==
  ret.op = "nearest" =>
    LET cands == Candidates(ret.at)
        dist(i) == SqDist(cands[i], Fx(ret.at[1]), Fx(ret.at[2]))
    IN cands # << >> =>
         \E i \in 1 .. Len(cands) :
           /\ ret.val = cands[i]
           /\ \A j \in 1 .. Len(cands) : dist(i) <= dist(j)
           /\ \A j \in 1 .. (i - 1) : dist(j) > dist(i)

\* C16 witness: two candidates at different places are both at the least
\* distance, and nearest returned the one the range returned first.
C16_Witness ==
  /\ ret.op = "nearest"
  /\ LET cands == Candidates(ret.at)
         dist(i) == SqDist(cands[i], Fx(ret.at[1]), Fx(ret.at[2]))
     IN \E i, j \in 1 .. Len(cands) :
          /\ i < j /\ dist(i) = dist(j)
          /\ cands[i].x # cands[j].x
          /\ ret.val = cands[i]
          /\ \A k \in 1 .. Len(cands) : dist(k) >= dist(i)

\* The records the step changes and the records it creates.
Changed == {id \in DOMAIN db.nodes : id \notin DOMAIN db'.nodes \/ db'.nodes[id] # db.nodes[id]}
Created == DOMAIN db'.nodes \ DOMAIN db.nodes

\* C17: range and nearest leave the root-id record and every node record
\* as they were; a step that changes the store is an insert, an update or
\* an init on a store with no root-id record; an insert changes at most the
\* record it appends to or subdivides and creates the four children of the
\* latter, an update changes at most one record, a first init creates the
\* root record and the root-id record, and none touches another record.
C17_WritesOnlyItsRecords ==
  [][ /\ ret'.op \in {"range", "nearest"} => db' = db
      /\ db' # db => \/ ret'.op \in {"insert", "update"}
                     \/ ret'.op = "init" /\ db.meta = NoRoot
      /\ ret'.op = "insert" =>
           /\ db'.meta = db.meta
           /\ ~ret'.accepted => db' = db
           /\ Cardinality(Changed) <= 1
           /\ \A id \in Changed :
                \/ db'.nodes[id] = [db.nodes[id] EXCEPT !.points = Append(@, ret'.point)]
                \/ /\ BecomesDivided(id)
                   /\ Created = {db'.nodes[id].children[d] : d \in DirSet}
           /\ Created # {} => \E id \in Changed : BecomesDivided(id)
      /\ ret'.op = "update" =>
           /\ db'.meta = db.meta
           /\ Created = {}
           /\ Cardinality(Changed) <= 1
           /\ ret'.status # "ok" => db' = db
      /\ ret'.op = "init" =>
           /\ Changed = {}
           /\ IF db.meta = NoRoot THEN Created = {db'.meta} ELSE db' = db ]_vars

\* C17 witness: a range and then a nearest ran on a divided tree that an
\* update had written to.
C17_Witness ==
  /\ ret.op = "nearest" /\ ret.val # Null
  /\ updated
  /\ Root.divided

\* C20: with capacity >= 1 an insert is a finite descent (it calls _insert
\* on at most four records per divided record, and on the root) that
\* subdivides at most once, so the records grow by four per subdivision,
\* that is by 0 or 4; no step removes a record or gives a stored id another
\* boundary.
C20_BoundedGrowth ==
  [][ /\ DOMAIN db.nodes \subseteq DOMAIN db'.nodes
      /\ \A id \in DOMAIN db.nodes : db'.nodes[id].boundary = db.nodes[id].boundary
      /\ ret'.op = "insert" =>
           /\ tree.capacity >= 1
           /\ Len(ret'.split) <= 1
           /\ Cardinality(Created) = Len(Dirs) * Len(ret'.split)
           /\ Len(ret'.visited) <= 1 + Len(Dirs) * Len(splits') ]_vars

\* C20 witness: an insert subdivided a record below the root and the store
\* holds nine records.
C20_Witness ==
  /\ ret.op = "insert" /\ ret.accepted
  /\ Len(ret.split) = 1 /\ ret.split[1].id # tree.rootId
  /\ Cardinality(DOMAIN db.nodes) = 1 + 2 * Len(Dirs)

\* ------------------------------------------------------ interleaved inserts
AllIdle == \A p \in Procs : procs[p] = Idle
\* The points of the inserts that raced (not those stored before them).
Raced == {p \in Elems(inserted) : p \notin Elems(Earlier(1))}
\* No range query returns p.
Lost(p) == \A q \in Rects : p \notin Elems(RangeOf(tree, db.nodes, q))

\* C18: inserts whose round trips interleave all resolve with _insert
\* returning true, yet when they have all resolved some of their points may
\* be returned by no range query (the witness); what is lost is bounded:
\* the points stored before the race are all still reachable, no point is
\* reachable more often than it was inserted, and at least one of the racing
\* points is reachable.
C18_RaceLosesPoints ==
  AllIdle =>
    LET reach == ReachPoints(db.nodes, tree.rootId)
    IN /\ Cardinality(Raced) = calls
       /\ \A p \in Elems(Earlier(1)) : CountIn(reach, p) = CountIn(inserted, p)
       /\ \A p \in Elems(reach) : CountIn(reach, p) <= CountIn(inserted, p)
       /\ calls >= 1 => \E p \in Raced : p \in Elems(reach)

\* C18 witness: two inserts of in-universe points have both resolved, both
\* with _insert returning true, and no range query returns the point of one
\* of them.
C18_Witness ==
  /\ AllIdle /\ calls >= 2
  /\ ret.op = "insert" /\ ret.status = "ok" /\ ret.accepted
  /\ \A p \in Raced : InUniverse(p)
  /\ Cardinality(Raced) >= 2
  /\ \E p \in Raced : Lost(p)

\* C19: in every store state reached by inserts whose round trips
\* interleave in any order, every record with divided = true has a children
\* map of four ids and each names a stored record; so no call in flight is
\* about to read a record that is not there.
C19_DividedHasChildren ==
  /\ \A id \in DOMAIN db.nodes :
       db.nodes[id].divided =>
         \A d \in DirSet :
           d \in DOMAIN db.nodes[id].children /\ db.nodes[id].children[d] \in DOMAIN db.nodes
  /\ \A p \in Procs :
       (procs[p] # Idle /\ procs[p].pc = "get") => procs[p].nodeId \in DOMAIN db.nodes

\* C19 witness: two calls have subdivided the same record, the second
\* replacing the children of the first, while a call is in flight.
C19_Witness ==
  /\ Len(splits) >= 2 /\ splits[1].id = splits[2].id
  /\ db.nodes[splits[1].id].divided
  /\ Cardinality(Orphans) >= Len(Dirs)
  /\ ~AllIdle

============================================================================
